---- MODULE Spec2Model ----
(***************************************************************************)
(* A model of the YouTube transcript extractor: the transcript pipeline    *)
(* transcriptYt (src/lib/fetch-youtube.ts) with the request handler GET    *)
(* (src/pages/api/youtube.ts) that calls it, and the two pure functions    *)
(* chooseTrack and normalizeSegments.                                      *)
(*                                                                         *)
(* JavaScript strings whose contents the code inspects are sequences: a    *)
(* caption text and a language code are sequences of characters, a URL and *)
(* an error message are sequences of tokens.  A JavaScript value that may  *)
(* be of several types is a record with a tag field.                       *)
(***************************************************************************)
EXTENDS Integers, Sequences, FiniteSets, TLC

VARIABLES
    pc,             \* per request: where the handler / pipeline is suspended
    videoUrl,       \* per request: the videoUrl query parameter
    sent,           \* per request: the network requests issued so far, in order
    got,            \* per request: the responses received so far, in order
    console,        \* per request: the [category, message] pairs logError printed
    transcription,  \* per request: what transcriptYt resolved to
    response,       \* per request: the handler's HTTP response
    lastError,      \* the binding the handler imports from fetch-youtube
    ctIn, ctOut,    \* chooseTrack: arguments and result
    nsIn, nsOut     \* normalizeSegments: argument and result

vars == <<pc, videoUrl, sent, got, console, transcription, response, lastError,
          ctIn, ctOut, nsIn, nsOut>>
pipelineVars == <<pc, videoUrl, sent, got, console, transcription, response, lastError>>
trackVars == <<ctIn, ctOut>>
normVars == <<nsIn, nsOut>>

----------------------------------------------------------------------------
(* JavaScript values *)

Undefined == [tag |-> "undefined"]
Null == [tag |-> "null"]
Num(n) == [tag |-> "number", n |-> n]
Str(chars) == [tag |-> "string", chars |-> chars]
NotCalled == [tag |-> "not_called"]

RECURSIVE SeqsUpTo(_, _)
\* All sequences over S of length at most n.
SeqsUpTo(S, n) ==
    IF n = 0 THEN {<<>>}
    ELSE LET shorter == SeqsUpTo(S, n - 1)
         IN  shorter \cup {Append(s, x) : s \in {t \in shorter : Len(t) = n - 1}, x \in S}

----------------------------------------------------------------------------
(* normalizeSegments, fetch-youtube.ts 198-215 *)

Whitespace == {" "}

RECURSIVE TrimStart(_)
TrimStart(chars) ==
    IF chars # <<>> /\ Head(chars) \in Whitespace THEN TrimStart(Tail(chars)) ELSE chars

RECURSIVE TrimEnd(_)
TrimEnd(chars) ==
    IF chars # <<>> /\ chars[Len(chars)] \in Whitespace
    THEN TrimEnd(SubSeq(chars, 1, Len(chars) - 1))
    ELSE chars

\* String.prototype.trim
Trim(chars) == TrimEnd(TrimStart(chars))

\* s && typeof s.text === "string"
IsTextSegment(s) == s.tag = "segment" /\ s.text.tag = "string"

\* the object the map callback builds
Cleaned(s) == [text |-> Trim(s.text.chars), startInMs |-> s.startInMs, duration |-> s.duration]

\* `${s.startInMs}|${s.text}`: the decimal digits of the start, a bar, the text
DedupKey(s) == <<ToString(s.startInMs), "|">> \o s.text

RECURSIVE DedupFrom(_, _)
\* the second filter: an element passes unless its key is in seen, and adds its key
DedupFrom(s, seen) ==
    IF s = <<>> THEN <<>>
    ELSE IF DedupKey(Head(s)) \in seen THEN DedupFrom(Tail(s), seen)
         ELSE <<Head(s)>> \o DedupFrom(Tail(s), seen \cup {DedupKey(Head(s))})

\* same, but a later element with a key already seen replaces the earlier one
RECURSIVE DedupKeepLast(_)
DedupKeepLast(s) ==
    IF s = <<>> THEN <<>>
    ELSE IF \E i \in 2..Len(s) : DedupKey(s[i]) = DedupKey(Head(s))
         THEN DedupKeepLast(Tail(s))
         ELSE <<Head(s)>> \o DedupKeepLast(Tail(s))

\* (a, b) => a.startInMs - b.startInMs
CompareStart(a, b) == a.startInMs - b.startInMs

\* x goes after every element that does not compare greater than it
InsertSorted(sorted, x) ==
    LET after == {i \in 1..Len(sorted) : CompareStart(sorted[i], x) <= 0}
        k == IF after = {} THEN 0 ELSE CHOOSE i \in after : \A j \in after : j <= i
    IN  SubSeq(sorted, 1, k) \o <<x>> \o SubSeq(sorted, k + 1, Len(sorted))

RECURSIVE SortFrom(_, _)
SortFrom(sorted, rest) ==
    IF rest = <<>> THEN sorted ELSE SortFrom(InsertSorted(sorted, Head(rest)), Tail(rest))

\* Array.prototype.sort with CompareStart: a stable sort
SortByStart(s) == SortFrom(<<>>, s)

NonEmptyText(s) == s.text # <<>>

RECURSIVE MapCleaned(_)
MapCleaned(s) == IF s = <<>> THEN <<>> ELSE <<Cleaned(Head(s))>> \o MapCleaned(Tail(s))

\* normalizeSegments keeping the last of several duplicates
normalizeSegmentsKeepLast(items) ==
    SortByStart(DedupKeepLast(SelectSeq(MapCleaned(SelectSeq(items, IsTextSegment)), NonEmptyText)))

normalizeSegments(items) ==
    SortByStart(DedupFrom(SelectSeq(MapCleaned(SelectSeq(items, IsTextSegment)), NonEmptyText), {}))

----------------------------------------------------------------------------
(* chooseTrack, fetch-youtube.ts 300-360 *)

\* String.prototype.toLowerCase on the characters the language codes use
LowerChar(c) ==
    CASE c = "E" -> "e" [] c = "N" -> "n" [] c = "P" -> "p" [] c = "T" -> "t"
      [] c = "B" -> "b" [] c = "R" -> "r" [] c = "S" -> "s" [] OTHER -> c

ToLowerCase(chars) == [i \in 1..Len(chars) |-> LowerChar(chars[i])]

\* String.prototype.startsWith
StartsWith(chars, prefix) ==
    Len(prefix) <= Len(chars) /\ SubSeq(chars, 1, Len(prefix)) = prefix

\* t.baseUrl is truthy
HasBaseUrl(t) == t.tag = "track" /\ t.baseUrl # <<>>

IsManual(t) == t.kind # "asr" /\ HasBaseUrl(t)
IsAsr(t) == t.kind = "asr" /\ HasBaseUrl(t)

\* tracks[idx] for a JavaScript index, which counts from 0
TrackAt(tracks, idx) == IF idx + 1 \in 1..Len(tracks) THEN tracks[idx + 1] ELSE Undefined

\* the predicate of list.find in scan
LanguageMatches(x, lang) ==
    x.languageCode = lang \/ StartsWith(ToLowerCase(x.languageCode), lang)

\* list.find: the first element of the list matching lang, or undefined
FindLanguage(list, lang) ==
    LET hits == {i \in 1..Len(list) : LanguageMatches(list[i], lang)}
    IN  IF hits = {} THEN Undefined ELSE list[CHOOSE i \in hits : \A j \in hits : i <= j]

RECURSIVE scan(_, _)
\* for (const lang of prefs) { const t = list.find(...); if (t) return t }
scan(list, prefs) ==
    IF prefs = <<>> THEN Undefined
    ELSE LET t == FindLanguage(list, Head(prefs))
         IN  IF t.tag = "track" THEN t ELSE scan(list, Tail(prefs))

RECURSIVE RemoveFirst(_, _)
\* String.prototype.replace(token, ""): the first occurrence goes
RemoveFirst(url, token) ==
    IF url = <<>> THEN <<>>
    ELSE IF Head(url) = token THEN Tail(url)
         ELSE <<Head(url)>> \o RemoveFirst(Tail(url), token)

\* { url: String(t.baseUrl).replace("&fmt=srv3", ""), lang: t.languageCode }
Picked(t) ==
    [tag |-> "picked", url |-> RemoveFirst(t.baseUrl, "&fmt=srv3"), lang |-> t.languageCode]

RECURSIVE FirstTranslationSource(_, _)
\* the loop over defaultTranslationSourceTrackIndices
FirstTranslationSource(tracks, indices) ==
    IF indices = <<>> THEN Undefined
    ELSE IF HasBaseUrl(TrackAt(tracks, Head(indices))) THEN TrackAt(tracks, Head(indices))
         ELSE FirstTranslationSource(tracks, Tail(indices))

\* what chooseTrack does after the language scan found nothing
chooseDefault(tracks, manual, asr, defaultCaptionTrackIndex, defaultTranslationSourceTrackIndices) ==
    IF /\ defaultCaptionTrackIndex.tag = "number"
       /\ HasBaseUrl(TrackAt(tracks, defaultCaptionTrackIndex.n))
    THEN Picked(TrackAt(tracks, defaultCaptionTrackIndex.n))
    ELSE LET src == IF defaultTranslationSourceTrackIndices.tag = "array"
                    THEN FirstTranslationSource(tracks, defaultTranslationSourceTrackIndices.items)
                    ELSE Undefined
         IN  IF src.tag = "track" THEN Picked(src)
             ELSE IF manual # <<>> THEN Picked(manual[1])
             ELSE IF asr # <<>> THEN Picked(asr[1])
             ELSE Null

\* chooseTrack scanning the asr tracks before the manual ones
chooseTrackAsrFirst(tracks, preferredLanguages, defaultCaptionTrackIndex, defaultTranslationSourceTrackIndices) ==
    LET manual == SelectSeq(tracks, IsManual)
        asr == SelectSeq(tracks, IsAsr)
        prefs == IF preferredLanguages.tag = "array"
                 THEN [i \in 1..Len(preferredLanguages.items) |->
                           ToLowerCase(preferredLanguages.items[i])]
                 ELSE <<>>
        direct == IF scan(asr, prefs).tag = "track" THEN scan(asr, prefs) ELSE scan(manual, prefs)
    IN  IF direct.tag = "track" THEN Picked(direct)
        ELSE chooseDefault(tracks, manual, asr, defaultCaptionTrackIndex,
                           defaultTranslationSourceTrackIndices)

\* chooseTrack without the two last fallbacks
chooseTrackNoFallback(tracks, preferredLanguages, defaultCaptionTrackIndex, defaultTranslationSourceTrackIndices) ==
    LET manual == SelectSeq(tracks, IsManual)
        asr == SelectSeq(tracks, IsAsr)
        prefs == IF preferredLanguages.tag = "array"
                 THEN [i \in 1..Len(preferredLanguages.items) |->
                           ToLowerCase(preferredLanguages.items[i])]
                 ELSE <<>>
        direct == IF scan(manual, prefs).tag = "track" THEN scan(manual, prefs) ELSE scan(asr, prefs)
    IN  IF direct.tag = "track" THEN Picked(direct)
        ELSE chooseDefault(tracks, <<>>, <<>>, defaultCaptionTrackIndex,
                           defaultTranslationSourceTrackIndices)

chooseTrack(tracks, preferredLanguages, defaultCaptionTrackIndex, defaultTranslationSourceTrackIndices) ==
    LET manual == SelectSeq(tracks, IsManual)
        asr == SelectSeq(tracks, IsAsr)
        prefs == IF preferredLanguages.tag = "array"
                 THEN [i \in 1..Len(preferredLanguages.items) |->
                           ToLowerCase(preferredLanguages.items[i])]
                 ELSE <<>>
        direct == IF scan(manual, prefs).tag = "track" THEN scan(manual, prefs) ELSE scan(asr, prefs)
    IN  IF direct.tag = "track" THEN Picked(direct)
        ELSE chooseDefault(tracks, manual, asr, defaultCaptionTrackIndex,
                           defaultTranslationSourceTrackIndices)

----------------------------------------------------------------------------
(* The steps of transcriptYt between two awaits, fetch-youtube.ts 8-179 *)

\* what a stretch of synchronous code ends in
Await(at, request) == [tag |-> "await", at |-> at, request |-> request]
Return(value) == [tag |-> "return", value |-> value]
Throw(error) == [tag |-> "throw", error |-> error]
LogReturnNull(category, message) ==
    [tag |-> "log_return_null", category |-> category, message |-> message]

\* new Error(message)
Error(message) == [isError |-> TRUE, message |-> message]

\* String.prototype.includes on a message
Includes(tokens, token) == \E i \in 1..Len(tokens) : tokens[i] = token

IdLength == 11
WordChars == {"d", "Q", "w", "4", "9", "W", "g", "X", "c", "_", "-"}

\* the alternatives of the regular expression in front of the identifier
MarkerRecognized(url) ==
    \/ url.site = "youtube.com/" /\ url.marker \in {"watch?v=", "embed/", "v/", "live/"}
    \/ url.site = "youtu.be/" /\ url.marker = ""

extractVideoId(url) ==
    IF /\ MarkerRecognized(url)
       /\ Len(url.tail) >= IdLength
       /\ \A i \in 1..IdLength : url.tail[i] \in WordChars
    THEN Str(SubSeq(url.tail, 1, IdLength))
    ELSE Null

\* res.ok
Ok(res) == res.status \in 200..299

PageRequest(videoId, cookie) == [tag |-> "GET page", videoId |-> videoId, cookie |-> cookie]
PlayerRequest(apiKey, videoId) == [tag |-> "POST player", apiKey |-> apiKey, videoId |-> videoId]
CaptionRequest(url) == [tag |-> "GET caption", url |-> url]

\* fetchText once the fetch has settled
fetchText(res) ==
    IF res.tag = "rejected" THEN Throw(res.error)
    ELSE IF ~Ok(res) THEN Throw(Error(<<ToString(res.status)>>))
    ELSE Return(res.body)

\* html.match(/"INNERTUBE_API_KEY":\s*"([a-zA-Z0-9_-]+)"/)
extractInnertubeApiKey(html) == html.apiKey

\* transcriptYt from the html to the metadata request
AfterWatchHtml(videoId, html) ==
    IF extractInnertubeApiKey(html).tag = "null"
    THEN LogReturnNull("inaccessible", <<"innertube_api_key_not_found">>)
    ELSE Await("player", PlayerRequest(extractInnertubeApiKey(html).value, videoId))

\* the cookie of the second request without the token
ConsentCookieBare(v) == Str(<<"CONSENT=YES">>)

\* `CONSENT=YES+${v[1]}`
ConsentCookie(v) == Str(<<"CONSENT=YES+", v.value>>)

\* fetchWatchHtml after the first response
AfterFirstPage(videoId, res) ==
    LET t == fetchText(res)
    IN  IF t.tag = "throw" THEN t
        ELSE IF t.value.consentForm
             THEN IF t.value.v.tag = "null"
                  THEN Throw(Error(<<"consent_cookie_create_failed">>))
                  ELSE Await("page2", PageRequest(videoId, ConsentCookie(t.value.v)))
             ELSE AfterWatchHtml(videoId, t.value)

\* fetchWatchHtml after the response to the request that carries the cookie
AfterSecondPage(videoId, res) ==
    LET t == fetchText(res)
    IN  IF t.tag = "throw" THEN t
        ELSE IF t.value.consentForm THEN Throw(Error(<<"consent_cookie_invalid">>))
             ELSE AfterWatchHtml(videoId, t.value)

\* a guard that lets every status pass
assertPlayabilityOff(playabilityStatus) == Return(Undefined)

assertPlayability(playabilityStatus) ==
    IF playabilityStatus.tag # "object" THEN Return(Undefined)
    ELSE LET status == playabilityStatus.status
             reason == playabilityStatus.reason
         IN  IF status = "" \/ status = "OK" THEN Return(Undefined)
             ELSE IF status = "LOGIN_REQUIRED" /\ Includes(reason, "not a bot")
                  THEN Throw(Error(<<"request_blocked">>))
             ELSE IF status = "LOGIN_REQUIRED" /\ Includes(reason, "inappropriate")
                  THEN Throw(Error(<<"age_restricted">>))
             ELSE IF status = "ERROR" /\ Includes(reason, "unavailable")
                  THEN Throw(Error(<<"video_unavailable">>))
             ELSE Throw(Error(<<"video_unplayable">>))

\* fetchInnertubePlayer once the fetch has settled
fetchInnertubePlayer(res) ==
    IF res.tag = "rejected" THEN Throw(res.error)
    ELSE IF res.status = 429 THEN Throw(Error(<<"ip_blocked">>))
    ELSE IF ~Ok(res) THEN Throw(Error(<<"yt_request_failed_", ToString(res.status)>>))
    ELSE IF res.body.tag = "malformed" THEN Throw(Error(<<"Unexpected token">>))
    ELSE Return(res.body.data)

\* data?.playabilityStatus and the like: undefined when data is null
Field(data, name) == IF data.tag = "object" THEN data[name] ELSE Undefined

\* typeof audioTracks?.[0]?.defaultCaptionTrackIndex === "number" ? ... : undefined
DefaultCaptionTrackIndex(data) ==
    LET audioTracks == Field(data, "audioTracks")
    IN  IF /\ audioTracks.tag = "array"
           /\ audioTracks.items # <<>>
           /\ audioTracks.items[1].defaultCaptionTrackIndex.tag = "number"
        THEN audioTracks.items[1].defaultCaptionTrackIndex
        ELSE Undefined

\* transcriptYt from the metadata response to the caption request
AfterPlayer(preferredLanguages, res) ==
    LET d == fetchInnertubePlayer(res)
    IN  IF d.tag = "throw" THEN d
        ELSE LET data == d.value
                 guard == assertPlayability(Field(data, "playabilityStatus"))
                 captionTracks == Field(data, "captionTracks")
                 tracks == IF captionTracks.tag = "undefined"
                           THEN [tag |-> "array", items |-> <<>>]
                           ELSE captionTracks
             IN  IF guard.tag = "throw" THEN guard
                 ELSE IF tracks.tag # "array" \/ tracks.items = <<>>
                      THEN LogReturnNull("no_captions", <<"no_caption_tracks_found">>)
                 ELSE IF \E i \in 1..Len(tracks.items) : tracks.items[i].tag # "track"
                      THEN Throw(Error(<<"Cannot read properties of null">>))
                 ELSE LET picked == chooseTrack(tracks.items, preferredLanguages,
                                         DefaultCaptionTrackIndex(data),
                                         Field(data, "defaultTranslationSourceTrackIndices"))
                      IN  IF picked.tag = "null"
                          THEN LogReturnNull("no_captions", <<"no_suitable_track_found">>)
                          ELSE Await("caption", CaptionRequest(picked.url))

----------------------------------------------------------------------------
(* parseSegments, fetch-youtube.ts 223-284 *)

\* decodeHtml: each of the five entities is one element of the text
DecodeEntity(c) ==
    CASE c = "&amp;" -> "&" [] c = "&lt;" -> "<" [] c = "&gt;" -> ">"
      [] c = "&quot;" -> "\"" [] c = "&#39;" -> "'" [] OTHER -> c

decodeHtml(chars) == [i \in 1..Len(chars) |-> DecodeEntity(chars[i])]

\* Math.round(Number(attr) * 1000) of a decimal attribute with s seconds and ms thousandths
SecondsToMs(attr) == attr.s * 1000 + attr.ms

RECURSIVE parseTranscriptTexts(_)
\* one element of the argument per match of the <text start dur> pattern
parseTranscriptTexts(matches) ==
    IF matches = <<>> THEN <<>>
    ELSE LET m == Head(matches)
             text == Trim(decodeHtml(m.inner))
         IN  (IF text # <<>>
              THEN <<[tag |-> "segment", text |-> Str(text),
                      startInMs |-> SecondsToMs(m.start), duration |-> SecondsToMs(m.dur)]>>
              ELSE <<>>) \o parseTranscriptTexts(Tail(matches))

IsMarkup(c) == c \in {"<s>", "</s>", "<br/>"}
NotMarkup(c) == ~IsMarkup(c)

RECURSIVE parseTimedtext(_)
\* one element of the argument per match of the <p t d> pattern
parseTimedtext(matches) ==
    IF matches = <<>> THEN <<>>
    ELSE LET m == Head(matches)
             text == Trim(decodeHtml(SelectSeq(m.inner, NotMarkup)))
         IN  (IF text # <<>>
              THEN <<[tag |-> "segment", text |-> Str(text),
                      startInMs |-> m.t, duration |-> m.d]>>
              ELSE <<>>) \o parseTimedtext(Tail(matches))

parseSegments(xml) ==
    IF parseTranscriptTexts(xml.texts) # <<>> THEN parseTranscriptTexts(xml.texts)
    ELSE parseTimedtext(xml.paragraphs)

\* transcriptYt after the caption response
AfterCaption(res) ==
    IF res.tag = "rejected" THEN Throw(res.error)
    ELSE IF ~Ok(res) THEN Throw(Error(<<"yt_request_failed_", ToString(res.status)>>))
    ELSE LET segments == normalizeSegments(parseSegments(res.body))
         IN  IF segments = <<>>
             THEN LogReturnNull("no_captions", <<"no_segments_after_parsing">>)
             ELSE Return([tag |-> "array", items |-> segments])

\* transcriptYt up to the first await
StartTranscript(url) ==
    IF extractVideoId(url).tag = "null"
    THEN LogReturnNull("invalid_url", <<"unable_to_extract_video_id">>)
    ELSE Await("page1", PageRequest(extractVideoId(url).chars, Undefined))

\* a catch block that files every message under its own name
ClassifyByMessage(err) ==
    [category |-> IF err.isError /\ err.message # <<>> THEN err.message[1] ELSE "other_error",
     message |-> IF err.isError THEN err.message ELSE <<"unexpected_error">>]

\* the catch block of transcriptYt: the category and the message it logs
Classify(err) ==
    LET msg == IF err.isError THEN err.message ELSE <<>>
    IN  IF Includes(msg, "yt_request_failed_") \/ msg = <<"ip_blocked">>
        THEN [category |-> "network_error", message |-> msg]
        ELSE IF msg \in {<<"video_unavailable">>, <<"video_unplayable">>,
                         <<"age_restricted">>, <<"request_blocked">>}
        THEN [category |-> "inaccessible", message |-> msg]
        ELSE [category |-> "other_error",
              message |-> IF msg # <<>> THEN msg ELSE <<"unexpected_error">>]

\* the try block ended in outcome: what transcriptYt does with it
TryCatch(outcome) ==
    IF outcome.tag = "throw"
    THEN LogReturnNull(Classify(outcome.error).category, Classify(outcome.error).message)
    ELSE outcome

\* logError keeping what it logs in a slot of the module
logErrorShared(slot, category, message) ==
    [tag |-> "object", category |-> category, message |-> message]

\* what logError leaves in the binding the handler imports: it only prints.
\* fetch-youtube.ts exports no lastError, so the binding youtube.ts imports is
\* undefined in every build that runs, and nothing assigns it.
logError(slot, category, message) == slot

----------------------------------------------------------------------------
(* What the network and the caller can hand to the program *)

\* two requests in flight at once: one invocation beside another
Requests == {"r1", "r2"}

VideoId == <<"d", "Q", "w", "4", "w", "9", "W", "g", "X", "c", "Q">>
UrlString(site, marker, tail) ==
    [tag |-> "string", site |-> site, marker |-> marker, tail |-> tail]

\* the videoUrl query parameter: absent, or a string
VideoUrlParams ==
    { Null,
      UrlString("youtube.com/", "watch?v=", VideoId),
      UrlString("youtube.com/", "shorts/", VideoId),
      UrlString("youtu.be/", "", SubSeq(VideoId, 1, 5)) }

\* preferredLanguages: ["pt", "en"], youtube.ts 19
HandlerLanguages == [tag |-> "array", items |-> <<<<"p", "t">>, <<"e", "n">>>>]

\* a fetch that rejects
Rejected == [tag |-> "rejected", error |-> Error(<<"fetch failed">>)]
\* a fetch that rejects with a value that is no Error
RejectedNonError == [tag |-> "rejected", error |-> [isError |-> FALSE, message |-> <<>>]]
NoBody == [tag |-> "none"]
HttpFailures == {[tag |-> "http", status |-> st, body |-> NoBody] : st \in {404, 429}}
HttpOk(body) == [tag |-> "http", status |-> 200, body |-> body]

NoMatch == [tag |-> "null"]
Match(value) == [tag |-> "match", value |-> value]
Html(consentForm, v, apiKey) ==
    [tag |-> "html", consentForm |-> consentForm, v |-> v, apiKey |-> apiKey]

\* the watch page: with or without the consent form, its v field and the key
WatchPages ==
    { Html(FALSE, NoMatch, Match("AIzaSy_k")),
      Html(FALSE, NoMatch, NoMatch),
      Html(TRUE, Match("cb.20210328"), NoMatch),
      Html(TRUE, Match(""), Match("AIzaSy_k")),
      Html(TRUE, NoMatch, NoMatch) }

PageResponses == {Rejected, RejectedNonError} \cup HttpFailures \cup {HttpOk(h) : h \in WatchPages}

Track(kind, languageCode, baseUrl) ==
    [tag |-> "track", kind |-> kind, languageCode |-> languageCode, baseUrl |-> baseUrl]
Array(items) == [tag |-> "array", items |-> items]
Playability(status, reason) == [tag |-> "object", status |-> status, reason |-> reason]
PlayerData(playabilityStatus, captionTracks, audioTracks, translationSources) ==
    [tag |-> "object", playabilityStatus |-> playabilityStatus,
     captionTracks |-> captionTracks, audioTracks |-> audioTracks,
     defaultTranslationSourceTrackIndices |-> translationSources]

StatusOk == Playability("OK", <<>>)

\* player responses the guard rejects
RejectedStatuses ==
    { Playability("LOGIN_REQUIRED", <<"Sign in to confirm you are ", "not a bot">>),
      Playability("LOGIN_REQUIRED", <<"This video may be ", "inappropriate", " for some users">>),
      Playability("LOGIN_REQUIRED", <<"Private video">>),
      Playability("ERROR", <<"Video ", "unavailable">>),
      Playability("ERROR", <<>>),
      Playability("UNPLAYABLE", <<>>) }

\* player responses the guard lets pass, with the caption tracks they offer
PlayableData ==
    { PlayerData(StatusOk, Undefined, Undefined, Undefined),
      PlayerData(StatusOk, Str(<<"x">>), Undefined, Undefined),
      PlayerData(StatusOk, Array(<<Null>>), Undefined, Undefined),
      PlayerData(StatusOk, Array(<<Track("std", <<"e", "n">>, <<>>)>>), Undefined, Undefined),
      PlayerData(StatusOk,
                 Array(<<Track("asr", <<"p", "t">>, <<"https://c/1", "&fmt=srv3">>),
                         Track("std", <<"e", "n">>, <<"https://c/2">>)>>),
                 Undefined, Undefined),
      PlayerData(Undefined,
                 Array(<<Track("std", <<"e", "s">>, <<>>),
                         Track("asr", <<"f", "r">>, <<"https://c/3", "&fmt=srv3">>),
                         Track("std", <<"d", "e">>, <<"https://c/4">>)>>),
                 Array(<<[defaultCaptionTrackIndex |-> Num(1)]>>), Array(<<2>>)),
      PlayerData(StatusOk,
                 Array(<<Track("asr", <<"f", "r">>, <<"https://c/5">>)>>),
                 Array(<<[defaultCaptionTrackIndex |-> Undefined]>>), Undefined) }

PlayerResponses ==
    {Rejected, RejectedNonError} \cup HttpFailures
    \cup {HttpOk([tag |-> "malformed"]), HttpOk([tag |-> "json", data |-> Null])}
    \cup {HttpOk([tag |-> "json", data |-> PlayerData(ps, Undefined, Undefined, Undefined)]) :
             ps \in RejectedStatuses}
    \cup {HttpOk([tag |-> "json", data |-> d]) : d \in PlayableData}
    \cup {HttpOk([tag |-> "json", data |->
              PlayerData(Playability("UNPLAYABLE", <<>>),
                         Array(<<Track("std", <<"e", "n">>, <<"https://c/6">>)>>),
                         Undefined, Undefined)])}

Seconds(s, ms) == [s |-> s, ms |-> ms]
TextElement(start, dur, inner) == [start |-> start, dur |-> dur, inner |-> inner]
Paragraph(t, d, inner) == [t |-> t, d |-> d, inner |-> inner]
Xml(texts, paragraphs) == [tag |-> "xml", texts |-> texts, paragraphs |-> paragraphs]

\* caption documents: what the two patterns match in them
CaptionDocuments ==
    { Xml(<<>>, <<>>),
      Xml(<<TextElement(Seconds(0, 0), Seconds(1, 0), <<" ">>)>>, <<>>),
      Xml(<<TextElement(Seconds(2, 0), Seconds(1, 0), <<"b">>),
            TextElement(Seconds(1, 500), Seconds(2, 0), <<" ", "a", "&amp;">>),
            TextElement(Seconds(2, 0), Seconds(3, 0), <<"b", " ">>)>>, <<>>),
      Xml(<<>>, <<Paragraph(1500, 2000, <<"<s>", "H", "i", "</s>", " ">>)>>) }

CaptionResponses == {Rejected, RejectedNonError} \cup HttpFailures \cup {HttpOk(x) : x \in CaptionDocuments}

----------------------------------------------------------------------------
(* The request handler and the pipeline as steps, youtube.ts 4-52 *)

Init ==
    /\ pc = [p \in Requests |-> "idle"]
    /\ videoUrl = [p \in Requests |-> Undefined]
    /\ sent = [p \in Requests |-> <<>>]
    /\ got = [p \in Requests |-> <<>>]
    /\ console = [p \in Requests |-> <<>>]
    /\ transcription = [p \in Requests |-> NotCalled]
    /\ response = [p \in Requests |-> NotCalled]
    /\ lastError = Undefined
    /\ ctIn = NotCalled /\ ctOut = NotCalled
    /\ nsIn = NotCalled /\ nsOut = NotCalled

\* transcriptYt runs on to its next await or to its end
Continue(p, tried) ==
    LET outcome == TryCatch(tried)
    IN  /\ pc' = [pc EXCEPT ![p] = IF outcome.tag = "await" THEN outcome.at ELSE "returned"]
        /\ sent' = [sent EXCEPT ![p] =
                       IF outcome.tag = "await" THEN Append(@, outcome.request) ELSE @]
        /\ console' = [console EXCEPT ![p] =
                          IF outcome.tag = "log_return_null"
                          THEN Append(@, [category |-> outcome.category,
                                          message |-> outcome.message])
                          ELSE @]
        /\ lastError' = IF outcome.tag = "log_return_null"
                        THEN logError(lastError, outcome.category, outcome.message)
                        ELSE lastError
        /\ transcription' = [transcription EXCEPT ![p] =
                                CASE outcome.tag = "await" -> @
                                  [] outcome.tag = "return" -> outcome.value
                                  [] outcome.tag = "log_return_null" -> Null
                                  [] outcome.tag = "throw" ->
                                         [tag |-> "rejected", error |-> outcome.error]]

\* GET is called: 400 without the parameter, else transcriptYt up to its first await
HandleRequest ==
    \E p \in Requests, param \in VideoUrlParams :
        /\ pc[p] = "idle"
        /\ videoUrl' = [videoUrl EXCEPT ![p] = param]
        /\ IF param.tag = "null"
           THEN /\ pc' = [pc EXCEPT ![p] = "responded"]
                /\ response' = [response EXCEPT ![p] =
                                   [status |-> 400, message |-> "Video URL is required"]]
                /\ UNCHANGED <<sent, console, transcription, lastError>>
           ELSE /\ Continue(p, StartTranscript(param))
                /\ UNCHANGED response
        /\ UNCHANGED <<got, ctIn, ctOut, nsIn, nsOut>>

\* the first GET of the watch page settles
FirstPageResponse ==
    \E p \in Requests, res \in PageResponses :
        /\ pc[p] = "page1"
        /\ got' = [got EXCEPT ![p] = Append(@, res)]
        /\ Continue(p, AfterFirstPage(sent[p][1].videoId, res))
        /\ UNCHANGED <<videoUrl, response, ctIn, ctOut, nsIn, nsOut>>

\* the GET that carries the consent cookie settles
SecondPageResponse ==
    \E p \in Requests, res \in PageResponses :
        /\ pc[p] = "page2"
        /\ got' = [got EXCEPT ![p] = Append(@, res)]
        /\ Continue(p, AfterSecondPage(sent[p][1].videoId, res))
        /\ UNCHANGED <<videoUrl, response, ctIn, ctOut, nsIn, nsOut>>

\* the POST to the player endpoint settles
PlayerResponse ==
    \E p \in Requests, res \in PlayerResponses :
        /\ pc[p] = "player"
        /\ got' = [got EXCEPT ![p] = Append(@, res)]
        /\ Continue(p, AfterPlayer(HandlerLanguages, res))
        /\ UNCHANGED <<videoUrl, response, ctIn, ctOut, nsIn, nsOut>>

\* the GET of the caption document settles
CaptionResponse ==
    \E p \in Requests, res \in CaptionResponses :
        /\ pc[p] = "caption"
        /\ got' = [got EXCEPT ![p] = Append(@, res)]
        /\ Continue(p, AfterCaption(res))
        /\ UNCHANGED <<videoUrl, response, ctIn, ctOut, nsIn, nsOut>>

RECURSIVE TextOnly(_)
\* for (const track of transcription || []) textOnlyTranscription += ` ${track.text}`
TextOnly(items) ==
    IF items = <<>> THEN <<>> ELSE <<" ">> \o Head(items).text \o TextOnly(Tail(items))

\* lastError?.message ?? null, lastError?.category ?? null
ErrorDetail(slot) ==
    IF slot.tag = "object"
    THEN [reason |-> [tag |-> "string", tokens |-> slot.message],
          category |-> [tag |-> "string", name |-> slot.category]]
    ELSE [reason |-> Null, category |-> Null]

\* the handler resumes after await transcriptYt and answers
Respond ==
    \E p \in Requests :
        /\ pc[p] = "returned"
        /\ pc' = [pc EXCEPT ![p] = "responded"]
        /\ response' = [response EXCEPT ![p] =
              IF transcription[p].tag = "rejected"
              THEN [status |-> 500]
              ELSE LET text == TextOnly(IF transcription[p].tag = "array"
                                        THEN transcription[p].items ELSE <<>>)
                   IN  IF text = <<>>
                       THEN [status |-> 404, message |-> "No transcript available.",
                             reason |-> ErrorDetail(lastError).reason,
                             category |-> ErrorDetail(lastError).category]
                       ELSE [status |-> 200, transcription |-> text]]
        /\ UNCHANGED <<videoUrl, sent, got, console, transcription, lastError,
                       ctIn, ctOut, nsIn, nsOut>>

Next ==
    \/ HandleRequest
    \/ FirstPageResponse
    \/ SecondPageResponse
    \/ PlayerResponse
    \/ CaptionResponse
    \/ Respond

Spec == Init /\ [][Next]_vars

----------------------------------------------------------------------------
(* Claims about the pipeline and the handler, checked under Spec *)

Categories == {"invalid_url", "inaccessible", "no_captions", "network_error", "other_error"}

Finished(p) == transcription[p].tag # "not_called"
Absent(p) == transcription[p].tag = "null"
HttpNotOk(res) == res.tag = "http" /\ ~(res.status \in 200..299)
GotHtml(res) == res.tag = "http" /\ res.status \in 200..299 /\ res.body.tag = "html"

\* C1: transcriptYt never raises to its caller: it resolves to a non-empty segment
\* list or to null, and with null it has logged exactly one classification, whose
\* category is one of the five.
C1_AbsenceIsClassifiedOnce ==
    \A p \in Requests :
        Finished(p) =>
            \/ transcription[p].tag = "array" /\ transcription[p].items # <<>>
            \/ /\ Absent(p)
               /\ Len(console[p]) = 1
               /\ console[p][1].category \in Categories

\* both outcomes, the absence after a fetch that rejected
C1_Witness ==
    \E p, q \in Requests :
        /\ Absent(p) /\ got[p] # <<>> /\ got[p][Len(got[p])].tag = "rejected"
        /\ transcription[q].tag = "array"

\* C2: after a run that ended in absence the handler's 404 response carries the
\* category and the message that run classified, not null.
C2_ResponseCarriesClassification ==
    \A p \in Requests :
        pc[p] = "responded" /\ Absent(p) =>
            /\ response[p].status = 404
            /\ response[p].category.tag = "string"
            /\ response[p].category.name = console[p][1].category
            /\ response[p].reason.tag = "string"
            /\ response[p].reason.tokens = console[p][1].message

C4_PageStatusIsNetworkError ==
    \A p \in Requests :
        \A i \in 1..Len(got[p]) :
            sent[p][i].tag = "GET page" /\ HttpNotOk(got[p][i]) =>
                /\ Absent(p)
                /\ console[p][1].category = "network_error"
                /\ Includes(console[p][1].message, ToString(got[p][i].status))

\* the consent form without a v field, or the consent form again after the retry
ConsentFailed(p) ==
    \/ /\ Len(got[p]) >= 1 /\ GotHtml(got[p][1])
       /\ got[p][1].body.consentForm /\ got[p][1].body.v.tag = "null"
    \/ /\ Len(got[p]) >= 2 /\ sent[p][2].tag = "GET page" /\ GotHtml(got[p][2])
       /\ got[p][2].body.consentForm

\* C5: a failed consent handshake ends the run in absence classified inaccessible.
C5_ConsentFailureIsInaccessible ==
    \A p \in Requests :
        ConsentFailed(p) => Absent(p) /\ console[p][1].category = "inaccessible"

\* C8: a run issues at most two GETs of the video page; the second only after the
\* first answer held the consent form and a token v, and with the cookie
\* CONSENT=YES+<token>; if the answer to the second holds the consent form again the
\* run fails with consent_cookie_invalid and issues no third request.
C8_ConsentHandshake ==
    \A p \in Requests :
        /\ Cardinality({i \in 1..Len(sent[p]) : sent[p][i].tag = "GET page"}) <= 2
        /\ Len(sent[p]) >= 1 => sent[p][1].tag = "GET page" /\ sent[p][1].cookie.tag = "undefined"
        /\ Len(sent[p]) >= 2 /\ sent[p][2].tag = "GET page" =>
               /\ GotHtml(got[p][1])
               /\ got[p][1].body.consentForm
               /\ got[p][1].body.v.tag = "match"
               /\ sent[p][2].cookie = Str(<<"CONSENT=YES+", got[p][1].body.v.value>>)
        /\ ( /\ Len(got[p]) >= 2 /\ sent[p][2].tag = "GET page"
             /\ GotHtml(got[p][2]) /\ got[p][2].body.consentForm ) =>
               /\ Len(sent[p]) = 2
               /\ Absent(p)
               /\ console[p][1].message = <<"consent_cookie_invalid">>

\* the retry answered with the consent form again
C8_Witness ==
    \E p \in Requests :
        /\ Len(got[p]) = 2 /\ sent[p][2].tag = "GET page"
        /\ sent[p][2].cookie = Str(<<"CONSENT=YES+", "cb.20210328">>)
        /\ GotHtml(got[p][2]) /\ got[p][2].body.consentForm
        /\ pc[p] = "returned"

RequestKinds(p) == [i \in 1..Len(sent[p]) |-> sent[p][i].tag]

\* the playability guard lets the status pass: none, or OK
StatusPasses(data) ==
    \/ data.tag # "object"
    \/ data.playabilityStatus.tag # "object"
    \/ data.playabilityStatus.status \in {"", "OK"}

\* the caption tracks the metadata offer
OfferedTracks(data) ==
    IF data.tag = "object" /\ data.captionTracks.tag = "array"
    THEN data.captionTracks.items ELSE <<>>

\* the stage that received answer i of request p failed
StageFailed(p, i) ==
    LET res == got[p][i]
    IN  \/ res.tag = "rejected"
        \/ HttpNotOk(res)
        \/ /\ sent[p][i].tag = "GET page" /\ GotHtml(res)
           /\ \/ res.body.consentForm /\ res.body.v.tag = "null"
              \/ res.body.consentForm /\ i = 2
              \/ ~res.body.consentForm /\ res.body.apiKey.tag = "null"
        \/ /\ sent[p][i].tag = "POST player" /\ res.tag = "http" /\ res.status \in 200..299
           /\ \/ res.body.tag = "malformed"
              \/ /\ res.body.tag = "json"
                 /\ \/ ~StatusPasses(res.body.data)
                    \/ \A k \in 1..Len(OfferedTracks(res.body.data)) :
                           ~HasBaseUrl(OfferedTracks(res.body.data)[k])

\* C9: the requests of a run are page GET(s), then the metadata POST, then the
\* caption GET, the last two at most once; after a stage failed no request follows;
\* the caption GET follows only a metadata answer whose status passed the guard and
\* asks for the URL of an offered track.
C9_RequestOrder ==
    \A p \in Requests :
        /\ RequestKinds(p) \in
               { <<>>, <<"GET page">>, <<"GET page", "GET page">>,
                 <<"GET page", "POST player">>,
                 <<"GET page", "GET page", "POST player">>,
                 <<"GET page", "POST player", "GET caption">>,
                 <<"GET page", "GET page", "POST player", "GET caption">> }
        /\ videoUrl[p].tag = "string" /\ extractVideoId(videoUrl[p]).tag = "null" => sent[p] = <<>>
        /\ \A i \in 1..Len(got[p]) : StageFailed(p, i) => Len(sent[p]) = i
        /\ \A i \in 1..Len(sent[p]) :
               sent[p][i].tag = "GET caption" =>
                   LET data == got[p][i - 1].body.data
                   IN  /\ StatusPasses(data)
                       /\ \E k \in 1..Len(OfferedTracks(data)) :
                              /\ HasBaseUrl(OfferedTracks(data)[k])
                              /\ sent[p][i].url =
                                     RemoveFirst(OfferedTracks(data)[k].baseUrl, "&fmt=srv3")

\* In the pipeline: no_suitable_track_found is logged only when the metadata offered
\* tracks and none of them has a usable URL.
NoSuitableTrackOnlyWithoutUrl ==
    \A p \in Requests :
        Absent(p) /\ console[p][1].message = <<"no_suitable_track_found">> =>
            LET data == got[p][Len(got[p])].body.data
            IN  /\ OfferedTracks(data) # <<>>
                /\ \A k \in 1..Len(OfferedTracks(data)) : ~HasBaseUrl(OfferedTracks(data)[k])

\* a run through the consent retry to the caption GET, beside one the guard stopped
C9_Witness ==
    \E p, q \in Requests :
        /\ RequestKinds(p) = <<"GET page", "GET page", "POST player", "GET caption">>
        /\ Len(got[q]) >= 1
        /\ got[q][Len(got[q])].tag = "http" /\ got[q][Len(got[q])].body.tag = "json"
        /\ ~StatusPasses(got[q][Len(got[q])].body.data)
        /\ OfferedTracks(got[q][Len(got[q])].body.data) # <<>>
        /\ Absent(q)

----------------------------------------------------------------------------
(* chooseTrack on its own: the arguments are drawn, then it is called *)

MaxTracks == 3

TrackKinds == {"asr", "std"}
TrackLanguages == {<<"e", "n">>, <<"P", "t", "-", "B", "R">>}
TrackShapes == [kind : TrackKinds, languageCode : TrackLanguages, hasUrl : BOOLEAN]

\* the track at position i of the list: its URL names the position, and the URL of
\* an asr track ends in &fmt=srv3
TrackOfShape(shape, i) ==
    Track(shape.kind, shape.languageCode,
          IF ~shape.hasUrl THEN <<>>
          ELSE IF shape.kind = "asr" THEN <<"https://c/", ToString(i), "&fmt=srv3">>
          ELSE <<"https://c/", ToString(i)>>)

TrackLists ==
    {[i \in 1..Len(shapes) |-> TrackOfShape(shapes[i], i)] : shapes \in SeqsUpTo(TrackShapes, MaxTracks)}

PreferenceChoices ==
    { Undefined, Array(<<>>), Array(<<<<"p", "t">>>>), Array(<<<<"e", "s">>>>),
      Array(<<<<"p", "t">>, <<"E", "N">>>>), Array(<<<<"E", "N">>, <<"p", "t">>>>) }

\* the default caption track index: none, an index of the list, or one past any list
DefaultIndexChoices == {Undefined} \cup {Num(i) : i \in 0..MaxTracks}

TranslationSourceChoices ==
    {Undefined, Array(<<>>), Array(<<1>>), Array(<<MaxTracks, 2, 0>>)}

InitPipelineIdle ==
    /\ pc = [p \in Requests |-> "idle"]
    /\ videoUrl = [p \in Requests |-> Undefined]
    /\ sent = [p \in Requests |-> <<>>]
    /\ got = [p \in Requests |-> <<>>]
    /\ console = [p \in Requests |-> <<>>]
    /\ transcription = [p \in Requests |-> NotCalled]
    /\ response = [p \in Requests |-> NotCalled]
    /\ lastError = Undefined

InitChooseTrack ==
    /\ InitPipelineIdle
    /\ ctIn \in [tracks : TrackLists, preferredLanguages : PreferenceChoices,
                 defaultCaptionTrackIndex : DefaultIndexChoices,
                 defaultTranslationSourceTrackIndices : TranslationSourceChoices]
    /\ ctOut = NotCalled
    /\ nsIn = NotCalled /\ nsOut = NotCalled

CallChooseTrack ==
    /\ ctOut.tag = "not_called"
    /\ ctOut' = chooseTrack(ctIn.tracks, ctIn.preferredLanguages,
                            ctIn.defaultCaptionTrackIndex,
                            ctIn.defaultTranslationSourceTrackIndices)
    /\ UNCHANGED <<pipelineVars, ctIn, nsIn, nsOut>>

SpecChooseTrack == InitChooseTrack /\ [][CallChooseTrack]_vars

\* the least element of a non-empty set of numbers
Least(S) == CHOOSE i \in S : \A j \in S : i <= j

Usable(i) == ctIn.tracks[i].baseUrl # <<>>
ManualPositions == {i \in 1..Len(ctIn.tracks) : ctIn.tracks[i].kind # "asr" /\ Usable(i)}
AsrPositions == {i \in 1..Len(ctIn.tracks) : ctIn.tracks[i].kind = "asr" /\ Usable(i)}
Preferences ==
    IF ctIn.preferredLanguages.tag = "array" THEN ctIn.preferredLanguages.items ELSE <<>>

\* track i matches preference j: its code begins, case ignored, with the preference
MatchesPreference(i, j) ==
    StartsWith(ToLowerCase(ctIn.tracks[i].languageCode), ToLowerCase(Preferences[j]))

\* the preferences some track of the set matches
MatchedPreferences(positions) ==
    {j \in 1..Len(Preferences) : \E i \in positions : MatchesPreference(i, j)}

\* the first track of the set, in list order, matching the first matched preference
FirstPreferred(positions) ==
    Least({i \in positions : MatchesPreference(i, Least(MatchedPreferences(positions)))})

\* a JavaScript index that points at a track with a usable URL
PointsAtUsable(idx) == idx + 1 \in 1..Len(ctIn.tracks) /\ Usable(idx + 1)

TranslationSources ==
    IF ctIn.defaultTranslationSourceTrackIndices.tag = "array"
    THEN ctIn.defaultTranslationSourceTrackIndices.items ELSE <<>>

\* the position the six rules give, 0 for no selection
RulePosition ==
    IF MatchedPreferences(ManualPositions) # {} THEN FirstPreferred(ManualPositions)
    ELSE IF MatchedPreferences(AsrPositions) # {} THEN FirstPreferred(AsrPositions)
    ELSE IF /\ ctIn.defaultCaptionTrackIndex.tag = "number"
            /\ PointsAtUsable(ctIn.defaultCaptionTrackIndex.n)
         THEN ctIn.defaultCaptionTrackIndex.n + 1
    ELSE IF \E k \in 1..Len(TranslationSources) : PointsAtUsable(TranslationSources[k])
         THEN TranslationSources[
                  Least({k \in 1..Len(TranslationSources) :
                            PointsAtUsable(TranslationSources[k])})] + 1
    ELSE IF ManualPositions # {} THEN Least(ManualPositions)
    ELSE IF AsrPositions # {} THEN Least(AsrPositions)
    ELSE 0

\* C7: chooseTrack returns the track of the first applicable rule: a manual track
\* matching a preference, preferences in order; an asr track matching one; the
\* track at the default caption track index; the first default translation source
\* with a usable URL; the first manual track; the first asr track.  No asr track
\* is selected while a manual track matches any preference.
C7_SelectionOrder ==
    ctOut.tag # "not_called" =>
        /\ IF RulePosition = 0 THEN ctOut.tag = "null"
           ELSE /\ ctOut.tag = "picked"
                /\ ctOut.url = <<"https://c/", ToString(RulePosition)>>
                /\ ctOut.lang = ctIn.tracks[RulePosition].languageCode
        /\ MatchedPreferences(ManualPositions) # {} =>
               \E i \in ManualPositions : ctOut.url = <<"https://c/", ToString(i)>>

\* a manual track matches only the second preference, an asr track the first
C7_Witness ==
    /\ ctOut.tag = "picked"
    /\ Len(Preferences) = 2
    /\ MatchedPreferences(ManualPositions) = {2}
    /\ 1 \in MatchedPreferences(AsrPositions)
    /\ \E i \in AsrPositions : i < Least(ManualPositions)
    /\ ctIn.defaultCaptionTrackIndex.tag = "number"

\* C10: chooseTrack returns no selection exactly when no track of the list has a
\* usable URL, whatever the preferences and the default indices.
C10_NoSelectionIffNoUrl ==
    ctOut.tag # "not_called" =>
        (ctOut.tag = "null" <=> \A i \in 1..Len(ctIn.tracks) : ~Usable(i))

\* no selection from a list of tracks that match a preference and are pointed at
C10_Witness ==
    /\ ctOut.tag = "null"
    /\ Len(ctIn.tracks) = MaxTracks
    /\ Len(Preferences) = 2
    /\ \E i \in 1..Len(ctIn.tracks) : MatchesPreference(i, 1)
    /\ ctIn.defaultCaptionTrackIndex.tag = "number"
    /\ ctIn.defaultCaptionTrackIndex.n + 1 \in 1..Len(ctIn.tracks)
    /\ Len(TranslationSources) > 1

----------------------------------------------------------------------------
(* normalizeSegments on its own: the list is drawn, then it is called *)

MaxItems == 3

RawTexts ==
    {Str(<<" ">>), Str(<<"a">>), Str(<<" ", "a", " ">>), Str(<<"b">>), Undefined}
RawSegments ==
    {Null} \cup
    {[tag |-> "segment", text |-> t, startInMs |-> st, duration |-> d] :
        t \in RawTexts, st \in {0, 1500}, d \in {1, 2}}

InitNormalize ==
    /\ InitPipelineIdle
    /\ ctIn = NotCalled /\ ctOut = NotCalled
    /\ nsIn \in {Array(items) : items \in SeqsUpTo(RawSegments, MaxItems)}
    /\ nsOut = NotCalled

CallNormalizeSegments ==
    /\ nsOut.tag = "not_called"
    /\ nsOut' = Array(normalizeSegments(nsIn.items))
    /\ UNCHANGED <<pipelineVars, ctIn, ctOut, nsIn>>

SpecNormalize == InitNormalize /\ [][CallNormalizeSegments]_vars

\* input element i is a segment with a text that trims to text and starts at start
SharesKey(i, start, text) ==
    /\ nsIn.items[i].tag = "segment"
    /\ nsIn.items[i].text.tag = "string"
    /\ nsIn.items[i].startInMs = start
    /\ Trim(nsIn.items[i].text.chars) = text

====
